---- MODULE Spec2Model ----
(***************************************************************************)
(* State-machine model of cas-authentication-middleware:                   *)
(*   src/lib/cas-authentication.js  (options singleton, validateTicket,    *)
(*     getTicketFromLogoutRequest, bounce_redirect, login, destroySession, *)
(*     logout, handleTicketAjax, setOptions, setServiceUrl, init)          *)
(*   src/index.js                   (casHandler)                           *)
(*                                                                         *)
(* JavaScript scalars are modelled as strings; the non-string scalars are  *)
(* the tokens Undef, Null, JsTrue, JsFalse.  Values produced by the XML    *)
(* decoder are records tagged with a "kind" field.                         *)
(***************************************************************************)
EXTENDS Integers, Sequences, FiniteSets, TLC

VARIABLES
  options,   \* the module-level options object of cas-authentication.js
  sessions,  \* the host session store: session id -> session object
  inflight,  \* HTTP GETs issued by handleTicketAjax and not yet answered
  destroying,\* sessions whose destroy() was called and has not called back
  inited,    \* TRUE once some init call has returned normally
  last       \* the most recent operation: its inputs and what it did

vars == <<options, sessions, inflight, destroying, inited, last>>

-----------------------------------------------------------------------------
(* JavaScript scalar values *)

Undef   == "<undefined>"
Null    == "<null>"
JsTrue  == "<true>"
JsFalse == "<false>"

\* JS truthiness of a scalar (if (x), !x, x || y)
Truthy(v) == v \notin {Undef, Null, JsFalse, ""}

\* an "or" that takes its second operand whatever the first is
JsSecond(a, b) == b

\* a || b
JsOr(a, b) == IF Truthy(a) THEN a ELSE b

-----------------------------------------------------------------------------
(* Configuration: the options singleton, setOptions, init, setServiceUrl *)

OptionKeys ==
  {"casServer", "serviceUrl", "sessionInfo", "sessionName", "cas_version",
   "renew", "destroy_session", "devMode", "devModeUser"}

\* var options = { ... }  -- the state of the module right after it is loaded
DefaultOptions ==
  [casServer       |-> Null,
   serviceUrl      |-> Null,
   sessionInfo     |-> "cas_userinfo",
   sessionName     |-> "cas_user",
   cas_version     |-> "2.0",
   renew           |-> JsFalse,
   destroy_session |-> JsFalse,
   devMode         |-> JsFalse,
   devModeUser     |-> Null]

\* Raw inputs of init.  A mapping is [kind |-> "object", props |-> f] with f
\* a function from its own keys to scalars; the others are non-mappings.
RawNull      == [kind |-> "null"]
RawUndefined == [kind |-> "undefined"]
RawString    == [kind |-> "string", len |-> 3]   \* e.g. "abc"
RawNumber    == [kind |-> "number"]              \* e.g. 5
RawObject(f) == [kind |-> "object", props |-> f]

\* Object.keys(_options) throws a TypeError for null and undefined
KeysThrows(raw) == raw.kind \in {"null", "undefined"}

\* Object.keys(_options): the index keys of a string, none for a number
ObjectKeys(raw) ==
  CASE raw.kind = "object" -> DOMAIN raw.props
    [] raw.kind = "string" -> {"0", "1", "2"}
    [] OTHER               -> {}

\* if (!options || typeof options !== "object"): the test reads the
\* module-level options object, not the parameter _options; that object has
\* its nine keys from the start and never loses one
ConfigObjectInvalid(opts) == DOMAIN opts = {}

\* a merge that starts from the defaults instead of the current options
MergeOptionsOverDefaults(opts, raw) ==
  [k \in DOMAIN opts |->
     IF k \in ObjectKeys(raw) /\ raw.kind = "object" THEN raw.props[k]
     ELSE DefaultOptions[k]]

\* Object.keys(_options).forEach(... hasOwnProperty.call(options, option) ...)
MergeOptions(opts, raw) ==
  [k \in DOMAIN opts |->
     IF k \in ObjectKeys(raw) /\ raw.kind = "object" THEN raw.props[k]
     ELSE opts[k]]

\* if (options.cas_version !== "2.0" && options.cas_version !== "3.0")
VersionRejected(v) == v # "2.0" /\ v # "3.0"

Returned == [state |-> "returned"]
Thrown(t, m) == [state |-> "thrown", type |-> t, message |-> m]

\* a setOptions that throws for a key the options object does not have
setOptionsStrict(opts, raw) ==
  IF KeysThrows(raw)
  THEN <<opts, Thrown("TypeError", "Cannot convert undefined or null to object")>>
  ELSE IF raw.kind = "object" /\ ~(ObjectKeys(raw) \subseteq DOMAIN opts)
  THEN <<opts, Thrown("Error", "unknown option")>>
  ELSE LET merged == MergeOptions(opts, raw) IN
    IF ~Truthy(merged.casServer)
    THEN <<merged, Thrown("Error", "requires a casServer parameter")>>
    ELSE IF VersionRejected(merged.cas_version)
    THEN <<merged, Thrown("Error", "CAS version is not supported")>>
    ELSE <<merged, Returned>>

\* setOptions(_options): <<options afterwards, how the call ended>>
setOptions(opts, raw) ==
  IF ConfigObjectInvalid(opts)
  THEN <<opts, Thrown("Error", "not given a valid configuration object")>>
  ELSE IF KeysThrows(raw)
  THEN <<opts, Thrown("TypeError", "Cannot convert undefined or null to object")>>
  ELSE LET merged == MergeOptions(opts, raw) IN
    IF ~Truthy(merged.casServer)
    THEN <<merged, Thrown("Error", "requires a casServer parameter")>>
    ELSE IF VersionRejected(merged.cas_version)
    THEN <<merged, Thrown("Error", "CAS version is not supported")>>
    ELSE <<merged, Returned>>

CasUrl == "https://cas.example"
Versions == {"1.0", "2.0", "3.0", "4.0"}
ServiceUrls == {"https://app.example/a", "https://app.example/b"}

\* the values a raw mapping may give to each key that init calls use here;
\* "logger" is a key that the options object does not have
RawValues ==
  [casServer       |-> {CasUrl},
   cas_version     |-> Versions,
   renew           |-> {JsTrue},
   logger          |-> {"console"}]

RawKeys == DOMAIN RawValues

\* every mapping over a subset of RawKeys
RawMappings ==
  UNION { { RawObject(f) :
            f \in { g \in [K -> UNION {RawValues[k] : k \in K}] :
                       \A k \in K : g[k] \in RawValues[k] } }
          : K \in SUBSET RawKeys }

RawNonMappings == {RawNull, RawUndefined, RawString, RawNumber}

-----------------------------------------------------------------------------
(* XML documents and the xml2js decoder as validateTicket and              *)
(* getTicketFromLogoutRequest configure it:                                *)
(*   trim, normalize, explicitArray: false,                                *)
(*   tagNameProcessors: [normalize (lower-case), stripPrefix]              *)

\* values of the decoded structure
JsUndefined  == [kind |-> "undefined"]
JsNull       == [kind |-> "null"]
JsString(s)  == [kind |-> "string", s |-> s]
JsObject(p)  == [kind |-> "object", props |-> p]

\* if (v) on a decoded value
TruthyNode(v) ==
  /\ v.kind \notin {"undefined", "null"}
  /\ ~(v.kind = "string" /\ v.s = "")

\* v.k where v is neither undefined nor null; the property of a string
\* primitive that is not one of its own (length, index) is undefined
Prop(v, k) ==
  IF v.kind = "object" /\ k \in DOMAIN v.props THEN v.props[k] ELSE JsUndefined

\* v.k throws a TypeError exactly when v is undefined or null
ReadThrows(v) == v.kind \in {"undefined", "null"}

\* an element: a qualified name, attributes, trimmed text and child elements
Name(p, l) == [prefix |-> p, local |-> l]
Element(n, a, t, k) == [name |-> n, attrs |-> a, text |-> t, kids |-> k]

\* XMLprocessors.normalize: the name in lower case
LowerCase(l) ==
  CASE l = "serviceResponse"       -> "serviceresponse"
    [] l = "authenticationFailure" -> "authenticationfailure"
    [] l = "authenticationSuccess" -> "authenticationsuccess"
    [] l = "LogoutRequest"         -> "logoutrequest"
    [] l = "logoutRequest"         -> "logoutrequest"
    [] l = "SessionIndex"          -> "sessionindex"
    [] l = "sessionIndex"          -> "sessionindex"
    [] l = "NameID"                -> "nameid"
    [] l = "proxySuccess"          -> "proxysuccess"
    [] OTHER                       -> l

\* tagNameProcessors: normalize, then stripPrefix
TagName(n) == LowerCase(n.local)

\* xml2js, explicitArray: false: an element without attributes and children
\* is its text (the empty string when it has none); otherwise an object
\* with "$" for the attributes, "_" for the text and one key per child.
\* (No element of Bodies has two children of one name.)
RECURSIVE Node(_)
Node(e) ==
  LET keys == (IF DOMAIN e.attrs # {} THEN {"$"} ELSE {})
                \cup (IF e.text # "" THEN {"_"} ELSE {})
                \cup {TagName(e.kids[i].name) : i \in DOMAIN e.kids}
  IN IF keys = {} THEN JsString("")
     ELSE IF keys = {"_"} THEN JsString(e.text)
     ELSE JsObject(
       [k \in keys |->
          IF k = "$" THEN JsObject([a \in DOMAIN e.attrs |-> JsString(e.attrs[a])])
          ELSE IF k = "_" THEN JsString(e.text)
          ELSE Node(e.kids[CHOOSE i \in DOMAIN e.kids : TagName(e.kids[i].name) = k])])

\* a response body: a well-formed document, or text that is not one
XmlBody(root) == [wf |-> TRUE, root |-> root]
TextBody(t)   == [wf |-> FALSE, text |-> t]

\* parseXML(body, {...}, callback): what the callback is given.  An empty
\* body is no document, and xml2js reports it as a null result, not an error.
parseXML(body) ==
  IF body.wf
  THEN [err |-> FALSE,
        result |-> JsObject([k \in {TagName(body.root.name)} |-> Node(body.root)])]
  ELSE IF body.text = ""
  THEN [err |-> FALSE, result |-> JsNull]
  ELSE [err |-> TRUE, result |-> JsUndefined]

\* how a promise ends
Resolved(v)    == [state |-> "resolved", value |-> v]
Rejected(r)    == [state |-> "rejected", reason |-> r]
ErrorObj(t, m) == [kind |-> "Error", type |-> t, message |-> m]

\* an exception thrown by the decoder's callback leaves parseXML, which runs
\* inside the promise executor: the promise is rejected with the exception
TypeErrorRejection == Rejected(ErrorObj("TypeError", "Cannot read properties"))

BadResponse == Rejected(ErrorObj("Error", "Response from CAS server was bad."))
AuthFailed  == Rejected(ErrorObj("Error", "CAS authentication failed."))

\* reject({ errorMessage: "CAS authentication failed", code, description })
Failure(code, description) ==
  Rejected([kind |-> "object", errorMessage |-> "CAS authentication failed",
            code |-> code, description |-> description])

\* resolve({ user: success.user, attributes: success.attributes })
Success(user, attributes) == Resolved([user |-> user, attributes |-> attributes])

\* validateTicket(body): how the promise it returns ends
validateTicket(body) ==
  LET p == parseXML(body) IN
  IF p.err THEN BadResponse
  ELSE IF ReadThrows(p.result) THEN TypeErrorRejection
  ELSE LET sr == Prop(p.result, "serviceresponse") IN
    IF ReadThrows(sr) THEN TypeErrorRejection
    ELSE LET failure == Prop(sr, "authenticationfailure") IN
      IF TruthyNode(failure)
      THEN IF ReadThrows(Prop(failure, "$")) THEN TypeErrorRejection
           ELSE Failure(Prop(Prop(failure, "$"), "code"), Prop(failure, "_"))
      ELSE LET success == Prop(sr, "authenticationsuccess") IN
        IF TruthyNode(success)
        THEN Success(Prop(success, "user"), Prop(success, "attributes"))
        ELSE AuthFailed

\* reject({ errorMessage: "no valid CAS logout document", code: ... })
NoValidLogout ==
  Rejected([kind |-> "object", errorMessage |-> "no valid CAS logout document",
            code |-> JsString("NO_VALID_CAS_LOGOUT"),
            description |-> JsString("service ticket could not be found")])

\* getTicketFromLogoutRequest(body): how the promise it returns ends; the
\* try/catch around the reads turns a TypeError into the generic Error
getTicketFromLogoutRequest(body) ==
  LET p == parseXML(body) IN
  IF p.err THEN BadResponse
  ELSE IF ReadThrows(p.result) THEN AuthFailed
  ELSE LET lr == Prop(p.result, "logoutrequest") IN
    IF ReadThrows(lr) THEN AuthFailed
    ELSE LET serviceTicket == Prop(lr, "sessionindex") IN
      IF TruthyNode(serviceTicket) THEN Resolved(serviceTicket)
      ELSE NoValidLogout

NoAttrs == <<>>
NoKids  == <<>>
Leaf(p, l, t) == Element(Name(p, l), NoAttrs, t, NoKids)

UserAlice == Leaf("cas", "user", "alice")
SuccessEl == Element(Name("cas", "authenticationSuccess"), NoAttrs, "", <<UserAlice>>)
SuccessAttrsEl ==
  Element(Name("cas", "authenticationSuccess"), NoAttrs, "",
          <<UserAlice,
            Element(Name("cas", "attributes"), NoAttrs, "",
                    <<Leaf("cas", "email", "alice@x.com")>>)>>)

\* the failure element with and without its code attribute and its text
FailureText == "Ticket not recognized"
FailureEl(withCode, text) ==
  Element(Name("cas", "authenticationFailure"),
          IF withCode THEN [code |-> "INVALID_TICKET"] ELSE NoAttrs, text, NoKids)
FailureEls == {FailureEl(c, t) : c \in BOOLEAN, t \in {"", FailureText}}

ServiceResponse(kids) == Element(Name("cas", "serviceResponse"), NoAttrs, "", kids)

\* responses with both a failure and a success element, in either order
BothBodies ==
  {XmlBody(ServiceResponse(<<f, SuccessEl>>)) : f \in FailureEls}
    \cup {XmlBody(ServiceResponse(<<SuccessEl, f>>)) : f \in FailureEls}

\* well-formed documents with neither element
NeitherBodies ==
  {XmlBody(ServiceResponse(NoKids)),
   XmlBody(ServiceResponse(<<Leaf("cas", "proxySuccess", "x")>>)),
   XmlBody(Element(Name("", "html"), NoAttrs, "", <<Leaf("", "body", "Bad Gateway")>>))}

\* single-logout documents, and documents that lack the session index
LogoutEl(kids) == Element(Name("samlp", "LogoutRequest"), [ID |-> "LR-1"], "", kids)
NameIdEl == Leaf("saml", "NameID", "@NOT_USED@")
LogoutBodies ==
  {XmlBody(LogoutEl(<<NameIdEl, Leaf("samlp", "SessionIndex", "ST-123")>>)),
   XmlBody(Element(Name("", "logoutRequest"), NoAttrs, "",
                   <<Leaf("", "sessionIndex", "ST-123")>>)),
   XmlBody(LogoutEl(<<NameIdEl>>)),
   XmlBody(LogoutEl(<<NameIdEl, Leaf("samlp", "SessionIndex", "")>>)),
   XmlBody(Element(Name("", "logoutRequest"), NoAttrs, "", NoKids))}

\* bodies that are not well-formed XML
NotXmlBodies == {TextBody("Bad Gateway"), TextBody("")}

Bodies ==
  {XmlBody(ServiceResponse(<<SuccessEl>>)),
   XmlBody(ServiceResponse(<<SuccessAttrsEl>>))}
    \cup {XmlBody(ServiceResponse(<<f>>)) : f \in FailureEls}
    \cup BothBodies \cup NeitherBodies \cup LogoutBodies \cup NotXmlBodies

-----------------------------------------------------------------------------
(* Requests, sessions and redirects *)

SessionIds == {"s1", "s2"}

\* the fields of a session object; "cart" is a field of the host application
SessionKeys == {"cas_user", "cas_userinfo", "cas_return_to", "cart"}

FreshSession ==
  [k \in SessionKeys |-> IF k = "cart" THEN "book" ELSE Undef]
AuthenticatedSession ==
  [k \in SessionKeys |->
     CASE k = "cas_user"     -> "alice"
       [] k = "cas_userinfo" -> "alice@x.com"
       [] k = "cart"         -> "book"
       [] OTHER              -> Undef]

\* delete session[key]
Delete(session, key) ==
  [k \in DOMAIN session |-> IF k = key THEN Undef ELSE session[k]]

\* what the handlers read of a request: its session (req.session, absent
\* when no session middleware ran), req.query.returnTo, req.query.redirectTo
\* and req.originalUrl
Requests ==
  [sid : SessionIds, hasSession : BOOLEAN,
   returnTo : {Undef, "/explicit"}, redirectTo : {Undef, "/r"},
   originalUrl : {"/page"}]

\* String(v), as URLSearchParams.set and string concatenation apply it
ToStr(v) ==
  CASE v = Null    -> "null"
    [] v = Undef   -> "undefined"
    [] v = JsTrue  -> "true"
    [] v = JsFalse -> "false"
    [] OTHER       -> v

\* redirect targets
NoQuery == <<>>
CasTarget(base, path, query) ==
  [kind |-> "cas", base |-> base, path |-> path, query |-> query]
LocalTarget(url) == [kind |-> "local", url |-> url]
RouterTarget(path, query) == [kind |-> "router", path |-> path, query |-> query]

\* casHelpers.checkSession(req): the request carries a session
checkSession(req) == req.hasSession

\* casHelpers.options, as casHandler reads it
casHelpersOptions(opts) == opts

\* new URL(options.casServer) throws a TypeError unless given a URL
IsUrl(v) == v = CasUrl

\* a login that adds the renew parameter whatever the renew option is
login_renew_always(opts, req, session) ==
  LET stored == [session EXCEPT
                   !["cas_return_to"] = JsOr(req.returnTo, req.originalUrl)]
      query == [service |-> ToStr(opts.serviceUrl), renew |-> "true"]
  IN IF ~IsUrl(opts.casServer)
     THEN <<stored, <<>>, Thrown("TypeError", "Invalid URL")>>
     ELSE <<stored, <<CasTarget(opts.casServer, "/login", query)>>, Returned>>

\* login(req, res, next): <<session afterwards, redirects, how it ended>>
login(opts, req, session) ==
  LET stored == [session EXCEPT
                   !["cas_return_to"] = JsOr(req.returnTo, req.originalUrl)]
      query == IF Truthy(opts.renew)
               THEN [service |-> ToStr(opts.serviceUrl), renew |-> "true"]
               ELSE [service |-> ToStr(opts.serviceUrl)]
  IN IF ~IsUrl(opts.casServer)
     THEN <<stored, <<>>, Thrown("TypeError", "Invalid URL")>>
     ELSE <<stored, <<CasTarget(opts.casServer, "/login", query)>>, Returned>>

\* a bounce_redirect without the test of the session user
bounce_redirect_always_login(opts, req, session) == login(opts, req, session)

\* bounce_redirect(req, res, next)
bounce_redirect(opts, req, session) ==
  IF Truthy(session[opts.sessionName])
  THEN IF Truthy(req.redirectTo)
       THEN <<session, <<LocalTarget(req.returnTo)>>, Returned>>
       ELSE <<session, <<LocalTarget(session["cas_return_to"])>>, Returned>>
  ELSE login(opts, req, session)

\* getAbsoluteUrl(backendBaseUrl, req)
getAbsoluteUrl(req) == req.originalUrl

\* casHandler(req, res, next): <<redirects, whether next() was called>>
casHandler(opts, req, session) ==
  IF req.hasSession /\ Truthy(session[casHelpersOptions(opts).sessionName])
  THEN <<<<>>, TRUE>>
  ELSE <<<<RouterTarget("login", [target |-> getAbsoluteUrl(req)])>>, FALSE>>

\* a clearing that deletes the session user and leaves the session info
ClearSessionUser(opts, session) == Delete(session, opts.sessionName)

\* destroySession(req), destroy_session not set: delete the CAS variables
ClearCasVariables(opts, session) ==
  LET s1 == Delete(session, opts.sessionName)
  IN IF Truthy(opts.sessionInfo) THEN Delete(s1, opts.sessionInfo) ELSE s1

\* handleTicketAjax: requestOptions, undefined unless the version is known
NoRequestOptions == [defined |-> FALSE]

\* requestOptions with the same path for every version
requestOptions_one_path(opts, ticket, serviceUrl) ==
  IF opts.cas_version \in {"1.0", "2.0", "3.0"}
  THEN [defined |-> TRUE,
        uri |-> [base |-> ToStr(opts.casServer), path |-> "/serviceValidate"],
        qs  |-> [service |-> serviceUrl, ticket |-> ticket]]
  ELSE NoRequestOptions

requestOptions(opts, ticket, serviceUrl) ==
  IF opts.cas_version \in {"1.0", "2.0", "3.0"}
  THEN [defined |-> TRUE,
        uri |-> [base |-> ToStr(opts.casServer),
                 path |-> IF opts.cas_version = "3.0"
                          THEN "/p3/serviceValidate" ELSE "/serviceValidate"],
        qs  |-> [service |-> serviceUrl, ticket |-> ticket]]
  ELSE NoRequestOptions

Tickets == {"ST-1"}
TransportError == Rejected(ErrorObj("Error", "ECONNREFUSED"))
NoUriError == Rejected(ErrorObj("Error", "options.uri is a required argument"))
StillPending == [state |-> "pending"]

\* at most this many validation requests are in flight at a time
MaxInFlight == 1

-----------------------------------------------------------------------------
(* The state machine *)

Boot == [op |-> "boot"]

Init ==
  /\ options = DefaultOptions
  /\ sessions \in [SessionIds -> {FreshSession, AuthenticatedSession}]
  /\ inflight = {}
  /\ destroying = {}
  /\ inited = FALSE
  /\ last = Boot

\* exports.init(options): setOptions(options); return exports
InitCall(raws) ==
  \E raw \in raws :
    LET r == setOptions(options, raw) IN
    /\ options' = r[1]
    /\ inited' = (inited \/ r[2] = Returned)
    /\ last' = [op |-> "init", raw |-> raw, result |-> r[2]]
    /\ UNCHANGED <<sessions, inflight, destroying>>

\* exports.setServiceUrl(serviceUrl)
SetServiceUrl(urls) ==
  \E url \in urls :
    /\ options' = [options EXCEPT !.serviceUrl = url]
    /\ last' = [op |-> "setServiceUrl", serviceUrl |-> url]
    /\ UNCHANGED <<sessions, inflight, destroying, inited>>

\* what a handler did with its request
Handled(op, req, redirects, next, result) ==
  [op |-> op, req |-> req, redirects |-> redirects, next |-> next,
   result |-> result]

\* casHandler(req, res, next) of index.js
CasHandler(reqs) ==
  \E req \in reqs :
    LET r == casHandler(options, req, sessions[req.sid]) IN
    /\ last' = Handled("casHandler", req, r[1], r[2], Returned)
    /\ UNCHANGED <<options, sessions, inflight, destroying, inited>>

\* exports.bounce_redirect(req, res, next)
BounceRedirect(reqs) ==
  \E req \in reqs :
    /\ checkSession(req)
    /\ LET r == bounce_redirect(options, req, sessions[req.sid]) IN
       /\ sessions' = [sessions EXCEPT ![req.sid] = r[1]]
       /\ last' = Handled("bounce_redirect", req, r[2], FALSE, r[3])
    /\ UNCHANGED <<options, inflight, destroying, inited>>

\* a login that stores the return URL in every session of the store
LoginIntoEverySession(reqs) ==
  \E req \in reqs :
    /\ checkSession(req)
    /\ LET r == login(options, req, sessions[req.sid]) IN
       /\ sessions' = [sid \in SessionIds |->
                         [sessions[sid] EXCEPT
                            !["cas_return_to"] = r[1]["cas_return_to"]]]
       /\ last' = Handled("login", req, r[2], FALSE, r[3])
    /\ UNCHANGED <<options, inflight, destroying, inited>>

\* login(req, res, next), as the router calls it
Login(reqs) ==
  \E req \in reqs :
    /\ checkSession(req)
    /\ LET r == login(options, req, sessions[req.sid]) IN
       /\ sessions' = [sessions EXCEPT ![req.sid] = r[1]]
       /\ last' = Handled("login", req, r[2], FALSE, r[3])
    /\ UNCHANGED <<options, inflight, destroying, inited>>

\* a destroySession that waits for the store and throws what it reports
destroySession_surfacing(opts, req, store, pendingDestroy) ==
  IF ~req.hasSession
  THEN <<store, pendingDestroy, Thrown("TypeError", "Cannot read properties")>>
  ELSE IF Truthy(opts.destroy_session)
  THEN <<store, pendingDestroy, Thrown("Error", "session store")>>
  ELSE <<[store EXCEPT ![req.sid] = ClearCasVariables(opts, store[req.sid])],
         pendingDestroy, Returned>>

\* exports.destroySession(req): the session object and the set of sessions
\* being destroyed afterwards, and how the call ended
destroySession(opts, req, store, pendingDestroy) ==
  IF ~req.hasSession
  THEN <<store, pendingDestroy, Thrown("TypeError", "Cannot read properties")>>
  ELSE IF Truthy(opts.destroy_session)
  THEN <<store, pendingDestroy \cup {req.sid}, Returned>>
  ELSE <<[store EXCEPT ![req.sid] = ClearCasVariables(opts, store[req.sid])],
         pendingDestroy, Returned>>

\* exports.destroySession(req), called on its own
DestroySession(reqs) ==
  \E req \in reqs :
    LET r == destroySession(options, req, sessions, destroying) IN
    /\ sessions' = r[1]
    /\ destroying' = r[2]
    /\ last' = Handled("destroySession", req, <<>>, FALSE, r[3])
    /\ UNCHANGED <<options, inflight, inited>>

\* exports.logout(req, res, next): destroySession, then the redirect
Logout(reqs) ==
  \E req \in reqs :
    LET r == destroySession(options, req, sessions, destroying) IN
    /\ sessions' = r[1]
    /\ destroying' = r[2]
    /\ last' = Handled("logout", req,
                       IF r[3] = Returned
                       THEN <<CasTarget(ToStr(options.casServer), "/logout", NoQuery)>>
                       ELSE <<>>,
                       FALSE, r[3])
    /\ UNCHANGED <<options, inflight, inited>>

\* the callback given to req.session.destroy: the store dropped the session
\* (the next request starts a fresh one), or it reports an error, which is
\* logged
DestroyCallback ==
  \E sid \in destroying, err \in BOOLEAN :
    /\ destroying' = destroying \ {sid}
    /\ sessions' = IF err THEN sessions
                   ELSE [sessions EXCEPT ![sid] = [k \in SessionKeys |-> Undef]]
    /\ last' = [op |-> "destroyCallback", sid |-> sid, err |-> err,
                logged |-> err, result |-> Returned]
    /\ UNCHANGED <<options, inflight, inited>>

\* exports.handleTicketAjax(ticket, serviceUrl) up to the return of the
\* promise: request.get(requestOptions, callback)
HandleTicketAjax(urls) ==
  \E ticket \in Tickets, serviceUrl \in urls :
    LET ro == requestOptions(options, ticket, serviceUrl)
        used == {g.id : g \in inflight}
        id == CHOOSE i \in (1..MaxInFlight) \ used :
                \A j \in (1..MaxInFlight) \ used : i <= j
    IN
    /\ Cardinality(inflight) < MaxInFlight
    /\ inflight' = IF ro.defined
                   THEN inflight \cup {[id |-> id, request |-> ro]}
                   ELSE inflight
    /\ last' = [op |-> "handleTicketAjax", ticket |-> ticket,
                serviceUrl |-> serviceUrl,
                gets |-> IF ro.defined THEN <<ro>> ELSE <<>>,
                result |-> IF ro.defined THEN StillPending ELSE NoUriError]
    /\ UNCHANGED <<options, sessions, destroying, inited>>

\* function(err, response, body) given to request.get: reject(err), or
\* resolve(validateTicket(body))
RequestCallback(bodies) ==
  \E get \in inflight, err \in BOOLEAN, body \in bodies \cup {TextBody("")} :
    /\ err => body = TextBody("")   \* no body comes with an error
    /\ inflight' = inflight \ {get}
    /\ last' = [op |-> "requestCallback", request |-> get.request, err |-> err,
                body |-> body,
                result |-> IF err THEN TransportError ELSE validateTicket(body)]
    /\ UNCHANGED <<options, sessions, destroying, inited>>

\* exports.getTicketFromLogoutRequest(body)
GetTicketFromLogoutRequest(bodies) ==
  \E body \in bodies :
    /\ last' = [op |-> "getTicketFromLogoutRequest", body |-> body,
                result |-> getTicketFromLogoutRequest(body)]
    /\ UNCHANGED <<options, sessions, inflight, destroying, inited>>

-----------------------------------------------------------------------------
(* Specifications.  The operations are independent of each other except    *)
(* through the options object and the session store, so each area is       *)
(* explored with its own inputs in full and the others left out.           *)

RawInputs == RawMappings \cup RawNonMappings

\* Configuration: every init input, and setServiceUrl
NextConfig ==
  \/ InitCall(RawInputs)
  \/ SetServiceUrl(ServiceUrls)

SpecConfig == Init /\ [][NextConfig]_vars

\* init inputs that give the CAS server and a protocol version
RawVersions ==
  {RawObject([casServer |-> CasUrl])}
    \cup {RawObject([casServer |-> CasUrl, cas_version |-> v]) : v \in Versions}

\* Ticket validation and logout notifications, under every protocol version
NextXml ==
  \/ InitCall(RawVersions)
  \/ HandleTicketAjax(ServiceUrls)
  \/ RequestCallback(Bodies)
  \/ GetTicketFromLogoutRequest(Bodies)

SpecXml == Init /\ [][NextXml]_vars

\* the init inputs, requests and bodies of the whole-program specification
RawCore ==
  {RawObject([casServer |-> CasUrl]),
   RawObject([casServer |-> CasUrl, cas_version |-> "3.0"]),
   RawObject([cas_version |-> "4.0"]),
   RawObject([casServer |-> CasUrl, destroy_session |-> JsTrue]),
   RawObject([logger |-> "console"]),
   RawNull}
RequestsCore == {r \in Requests : r.sid = "s1"}
UrlsCore == {"https://app.example/a"}
BodiesCore ==
  {XmlBody(ServiceResponse(<<SuccessEl>>)),
   XmlBody(ServiceResponse(<<FailureEl(TRUE, FailureText)>>)),
   XmlBody(LogoutEl(<<NameIdEl, Leaf("samlp", "SessionIndex", "ST-123")>>))}

\* The whole program: every operation
Next ==
  \/ InitCall(RawCore)
  \/ SetServiceUrl(UrlsCore)
  \/ CasHandler(RequestsCore)
  \/ BounceRedirect(RequestsCore)
  \/ Login(RequestsCore)
  \/ DestroySession(RequestsCore)
  \/ Logout(RequestsCore)
  \/ DestroyCallback
  \/ HandleTicketAjax(UrlsCore)
  \/ RequestCallback(BodiesCore)
  \/ GetTicketFromLogoutRequest(BodiesCore)

Spec == Init /\ [][Next]_vars

\* init inputs that vary the renew flag and the session-info key name
RawSession ==
  {RawObject([casServer |-> CasUrl]),
   RawObject([casServer |-> CasUrl, renew |-> JsTrue]),
   RawObject([renew |-> JsFalse]),
   RawObject([casServer |-> CasUrl, sessionInfo |-> JsFalse])}

\* requests of both sessions, each with its session object
RequestsSession == {r \in Requests : r.hasSession /\ r.redirectTo = Undef}
RequestsPlain == {r \in RequestsSession : r.returnTo = Undef}

\* Login and logout on two sessions, with the session variables cleared
\* one by one (destroy_session stays off)
NextSession ==
  \/ InitCall(RawSession)
  \/ SetServiceUrl(ServiceUrls)
  \/ CasHandler(RequestsPlain)
  \/ BounceRedirect(RequestsPlain)
  \/ Login(RequestsSession)
  \/ Logout(RequestsPlain)

SpecSession == Init /\ [][NextSession]_vars

-----------------------------------------------------------------------------
(* Properties *)

\* the validation started by handleTicketAjax, called after a successful
\* init, ended on a response body
Validated == inited /\ last.op = "requestCallback" /\ ~last.err

\* the authenticationFailure child of a response's root element
FailureElementOf(body) ==
  LET kids == body.root.kids
  IN kids[CHOOSE i \in DOMAIN kids :
            kids[i].name.local = "authenticationFailure"]

\* a rejection that carries the failure element's own code and text
CarriesFailureOf(result, body) ==
  LET f == FailureElementOf(body) IN
  /\ result.state = "rejected"
  /\ result.reason.kind = "object"
  /\ result.reason.errorMessage = "CAS authentication failed"
  /\ result.reason.code =
       (IF "code" \in DOMAIN f.attrs THEN JsString(f.attrs["code"]) ELSE JsUndefined)
  /\ result.reason.description =
       (IF f.text # "" THEN JsString(f.text) ELSE JsUndefined)

\* C1: every response that contains both an authenticationFailure and an
\* authenticationSuccess element ends in the Failure outcome with the failure
\* element's code and text, never in a Success outcome.
C1_FailureTakesPrecedence ==
  (Validated /\ last.body \in BothBodies)
    => /\ last.result.state # "resolved"
       /\ CarriesFailureOf(last.result, last.body)

\* C2: every well-formed response with neither an authenticationFailure nor
\* an authenticationSuccess element, whatever its root, ends in the generic
\* "authentication failed" rejection.
C2_NeitherIsGenericFailure ==
  (Validated /\ last.body \in NeitherBodies) => last.result = AuthFailed

\* C3: every response body that is not well-formed XML ends in the
\* malformed-document rejection.
C3_NotXmlIsMalformedDocument ==
  (Validated /\ ~last.body.wf) => last.result = BadResponse

\* a well-formed document without the logoutRequest root or without a
\* sessionIndex child of it
LacksLogoutTicket(body) ==
  /\ body.wf
  /\ \/ body.root.name.local \notin {"LogoutRequest", "logoutRequest"}
     \/ \A i \in DOMAIN body.root.kids :
          body.root.kids[i].name.local \notin {"SessionIndex", "sessionIndex"}

\* C4: for every well-formed document that lacks the logoutRequest root or
\* its sessionIndex field, getTicketFromLogoutRequest fails with the
\* NO_VALID_CAS_LOGOUT error, which is not the error of a malformed document.
C4_NoValidLogoutDocument ==
  (last.op = "getTicketFromLogoutRequest" /\ LacksLogoutTicket(last.body))
    => /\ last.result = NoValidLogout
       /\ last.result # BadResponse

InitOfMapping == last.op = "init" /\ last.raw.kind = "object"
RawHas(k) == k \in DOMAIN last.raw.props
Failed == last.result.state = "thrown"

\* C5: after any earlier init calls, an init call whose raw options carry no
\* CAS server URL fails, and one whose raw options carry version "4.0" fails.
C5_MissingServerOrVersion4Fails ==
  /\ (InitOfMapping /\ ~RawHas("casServer")) => Failed
  /\ (InitOfMapping /\ RawHas("cas_version")
        /\ last.raw.props["cas_version"] = "4.0") => Failed

\* C6: with a CAS server URL present, init succeeds for each of the versions
\* 1.0, 2.0 and 3.0 and fails for every other version.
C6_ThreeSupportedVersions ==
  (InitOfMapping /\ RawHas("casServer") /\ RawHas("cas_version"))
    => (Failed <=> last.raw.props["cas_version"] \notin {"1.0", "2.0", "3.0"})

\* a key of the raw options that the options object does not have
HasUnknownKey == InitOfMapping /\ ~(DOMAIN last.raw.props \subseteq OptionKeys)

\* C7 as stated: an init call whose raw options contain a key outside the
\* recognized option set is rejected.
C7_UnknownKeyRejected == HasUnknownKey => Failed

\* C7 amended: an unknown key is ignored.  It is never stored in the
\* configuration, and the call fails exactly when the configuration it
\* leaves has no CAS server URL or a version other than "2.0" and "3.0".
C7_UnknownKeyIgnored ==
  HasUnknownKey
    => /\ DOMAIN options = OptionKeys
       /\ Failed <=> \/ options.casServer = Null
                     \/ options.cas_version \notin {"2.0", "3.0"}

C7_Witness == HasUnknownKey /\ last.result = Returned

\* C8: an init call whose raw input is not a mapping fails, in every state
\* of the shared configuration.
C8_NonMappingFails ==
  (last.op = "init" /\ last.raw.kind # "object") => Failed

\* C9 as stated: once an init call has returned, no later operation alters
\* any configuration field.
C9_ConfigurationImmutable == [][inited => options' = options]_vars

\* the configuration fields a step changes
Changed == {k \in OptionKeys : options'[k] # options[k]}

\* C9 amended: once an init call has returned, only setServiceUrl and later
\* init calls alter the configuration: setServiceUrl alters serviceUrl alone,
\* an init call alters only recognized fields named in its raw options, and
\* every other operation leaves every field as it was.
C9_OnlySettersAlterConfiguration ==
  [][inited =>
       /\ DOMAIN options' = OptionKeys
       /\ last'.op = "setServiceUrl" => Changed \subseteq {"serviceUrl"}
       /\ last'.op = "init" =>
            Changed \subseteq (IF last'.raw.kind = "object"
                               THEN DOMAIN last'.raw.props ELSE {})
       /\ last'.op \notin {"setServiceUrl", "init"} => Changed = {}]_vars

C9_Witness ==
  /\ inited
  /\ last.op = "init"
  /\ last.raw = RawObject([casServer |-> CasUrl, destroy_session |-> JsTrue])
  /\ options.cas_version = "3.0"

\* the request of the last operation came with the session user set
OnAuthenticated ==
  /\ last.op \in {"casHandler", "bounce_redirect"}
  /\ last.req.hasSession
  /\ sessions[last.req.sid][options.sessionName] \notin {Undef, Null, ""}

LoginRedirected ==
  /\ last.op \in {"login", "bounce_redirect"}
  /\ last.redirects # <<>>
  /\ last.redirects[1].kind = "cas"

\* C11: every login redirect built by login carries renew=true when renew
\* is configured true, and carries no renew parameter at all when renew is
\* configured false or is unset.
C11_RenewOnlyWhenConfigured ==
  LoginRedirected =>
    LET query == last.redirects[1].query IN
    /\ options.renew = JsTrue =>
         ("renew" \in DOMAIN query /\ query.renew = "true")
    /\ options.renew = JsFalse => "renew" \notin DOMAIN query

C11_Witness ==
  /\ LoginRedirected
  /\ last.op = "login"
  /\ options.renew = JsTrue
  /\ last.redirects[1].query.renew = "true"

\* C12: for every supported protocol version, handleTicketAjax sends its GET
\* to {casServer}/p3/serviceValidate exactly when the version is 3.0 and to
\* {casServer}/serviceValidate when it is 1.0 or 2.0, and the query
\* parameters are exactly service, the given service URL, and ticket, the
\* given ticket.
C12_EndpointByVersion ==
  (last.op = "handleTicketAjax"
     /\ options.cas_version \in {"1.0", "2.0", "3.0"})
    => /\ Len(last.gets) = 1
       /\ LET get == last.gets[1] IN
          /\ get.uri.base = ToStr(options.casServer)
          /\ get.uri.path = "/p3/serviceValidate"
               <=> options.cas_version = "3.0"
          /\ options.cas_version \in {"1.0", "2.0"}
               => get.uri.path = "/serviceValidate"
          /\ get.qs = [service |-> last.serviceUrl, ticket |-> last.ticket]

C12_Witness ==
  /\ inited
  /\ last.op = "handleTicketAjax"
  /\ options.cas_version = "3.0"
  /\ last.gets[1].uri = [base |-> CasUrl, path |-> "/p3/serviceValidate"]
  /\ last.gets[1].qs = [service |-> "https://app.example/b", ticket |-> "ST-1"]

\* C13: every logout call, on a request that carries its session as the
\* host contract requires, issues exactly one redirect, to the CAS server's
\* /logout endpoint, and surfaces no error to the caller, whether the
\* destroy of the session succeeds or reports an error: the error reaches
\* only the callback, which logs it and returns.
C13_LogoutRedirectsOnce ==
  /\ (last.op = "logout" /\ last.req.hasSession)
       => /\ last.redirects =
               <<CasTarget(ToStr(options.casServer), "/logout", NoQuery)>>
          /\ last.result = Returned
  /\ last.op = "destroyCallback"
       => (last.result = Returned /\ last.logged = last.err)

C13_Witness ==
  /\ inited
  /\ last.op = "logout"
  /\ options.destroy_session = JsTrue
  /\ last.req.sid \in destroying
  /\ last.redirects = <<CasTarget(CasUrl, "/logout", NoQuery)>>

\* the session keys that the configuration names
CasKeys(opts) ==
  {opts.sessionName}
    \cup (IF Truthy(opts.sessionInfo) THEN {opts.sessionInfo} ELSE {})

\* C14: when destroy_session is not configured, after logout the request's
\* session no longer holds the session-user key, no longer holds the
\* session-info key if a session-info key name is configured, and every
\* other field of that session is unchanged; a casHandler call that follows
\* on that session starts the CAS cycle instead of calling next().
C14_LogoutClearsCasVariables ==
  [][(/\ last'.op = "logout"
      /\ last'.req.hasSession
      /\ ~Truthy(options.destroy_session))
     =>
       LET before == sessions[last'.req.sid]
           after  == sessions'[last'.req.sid]
           then   == casHandler(options', last'.req, after)
       IN /\ after[options.sessionName] = Undef
          /\ Truthy(options.sessionInfo) => after[options.sessionInfo] = Undef
          /\ \A k \in SessionKeys \ CasKeys(options) : after[k] = before[k]
          /\ then[1] # <<>>
          /\ then[1][1].kind = "router"
          /\ then[1][1].path = "login"
          /\ ~then[2]]_vars

\* a logout under a configuration without a session-info key name took the
\* user out of an authenticated session and left the info
C14_Witness ==
  /\ last.op = "logout"
  /\ inited
  /\ ~Truthy(options.sessionInfo)
  /\ sessions[last.req.sid] =
       [AuthenticatedSession EXCEPT !["cas_user"] = Undef]

\* C15: each handleTicketAjax call issues exactly one HTTP GET to the CAS
\* server; if the transport fails, the result of the call is rejected with
\* the transport error, without a second request and without decoding a
\* response body.
C15_OneGetPerCall ==
  /\ last.op = "handleTicketAjax"
       => (Len(last.gets) = 1 /\ last.result = StillPending)
  /\ (last.op = "requestCallback" /\ last.err)
       => (last.result = TransportError /\ last.request \notin
             {get.request : get \in inflight})

\* the last operation was a login, by the router or by bounce_redirect, on
\* a request whose session holds no session user, after init has returned
LoginOfAnonymous ==
  /\ inited
  /\ last.op \in {"login", "bounce_redirect"}
  /\ ~Truthy(sessions[last.req.sid][options.sessionName])

\* C16: for every request without a session user handled by login, the
\* return-to value stored in the session of that request is the explicit
\* returnTo query parameter when one is present and the original URL of the
\* request otherwise, and the redirect issued goes to the CAS server base
\* plus /login with the query parameter service = the configured service
\* URL.
C16_LoginStoresReturnTo ==
  LoginOfAnonymous =>
    /\ sessions[last.req.sid]["cas_return_to"] =
         (IF last.req.returnTo # Undef THEN last.req.returnTo
          ELSE last.req.originalUrl)
    /\ Len(last.redirects) = 1
    /\ last.redirects[1].kind = "cas"
    /\ last.redirects[1].base = options.casServer
    /\ last.redirects[1].path = "/login"
    /\ last.redirects[1].query.service = ToStr(options.serviceUrl)

C16_Witness ==
  /\ LoginOfAnonymous
  /\ last.op = "login"
  /\ last.req.returnTo = "/explicit"
  /\ sessions[last.req.sid]["cas_return_to"] = "/explicit"
  /\ last.redirects[1].query.service = "https://app.example/a"

\* C17: in every state reached by init calls, successful or failed, and
\* setServiceUrl calls, the protocol version that handleTicketAjax sees is
\* one of 1.0, 2.0 and 3.0, so that handleTicketAjax always has a defined
\* validation endpoint to send its request to (here: once an init call has
\* returned).
C17_VersionAlwaysSupported ==
  (inited /\ last.op = "handleTicketAjax")
    => /\ options.cas_version \in {"1.0", "2.0", "3.0"}
       /\ requestOptions(options, last.ticket, last.serviceUrl).defined
       /\ last.gets # <<>>

\* the redirects that login would issue for a request
LoginRedirectOf(opts, store, req) == login(opts, req, store[req.sid])[2]

\* the operations that handle a request
HandlerOps ==
  {"casHandler", "bounce_redirect", "login", "destroySession", "logout"}

\* C18 as stated: requests are handled independently under any
\* interleaving.  Once init has returned and the service URL is set, the
\* login redirect of a request is changed by no operation performed for
\* another request, setServiceUrl included (here: by no step but an init
\* call or an operation on the request's own session), and each operation
\* writes only the session attached to its own request.
C18_RequestsIndependent ==
  [][(inited /\ options.serviceUrl # Null) =>
       /\ \A req \in RequestsSession :
            (LoginRedirectOf(options', sessions', req)
               # LoginRedirectOf(options, sessions, req))
              => \/ last'.op = "init"
                 \/ last'.op \in HandlerOps /\ last'.req.sid = req.sid
       /\ \A sid \in SessionIds :
            sessions'[sid] # sessions[sid]
              => (last'.op \in HandlerOps /\ last'.req.sid = sid)]_vars

\* C18 amended: requests share the configuration as well as the session
\* store.  The login redirect of a request is built from the configuration
\* as it is when login runs: it changes through init calls and through
\* setServiceUrl calls, whoever makes them, and through nothing else, no
\* handler included.  Each operation writes only the session attached to
\* its own request, and the destroy callback only the session it was given.
C18_SharedConfiguration ==
  [][/\ \A req \in RequestsSession :
          (LoginRedirectOf(options', sessions', req)
             # LoginRedirectOf(options, sessions, req))
            => last'.op \in {"init", "setServiceUrl"}
     /\ \A sid \in SessionIds :
          sessions'[sid] # sessions[sid]
            => \/ last'.op \in HandlerOps /\ last'.req.sid = sid
               \/ last'.op = "destroyCallback" /\ last'.sid = sid]_vars

\* both sessions are in their login cycle when the service URL is set anew
C18_Witness ==
  /\ inited
  /\ last.op = "setServiceUrl"
  /\ options.serviceUrl = "https://app.example/b"
  /\ sessions["s1"]["cas_return_to"] = "/page"
  /\ sessions["s2"]["cas_return_to"] = "/explicit"

\* C19: in whole-session-destroy mode (destroy_session configured true),
\* logout first destroys the session and only then redirects: when the
\* redirect to the CAS /logout endpoint is issued, the destroy of the
\* session has completed.
C19_DestroyedBeforeRedirect ==
  (/\ inited
   /\ last.op = "logout"
   /\ Truthy(options.destroy_session)
   /\ last.redirects # <<>>)
    => /\ last.req.sid \notin destroying
       /\ \A k \in SessionKeys : sessions[last.req.sid][k] = Undef

\* C20: when bounce_redirect handles a request whose session already holds
\* the session user, it redirects to the explicit returnTo query parameter
\* of the request whenever that parameter is present, and to the stored
\* cas_return_to of the session otherwise; the target is never an undefined
\* value when either of the two is defined.
C20_BounceTargetIsReturnTo ==
  (inited /\ OnAuthenticated /\ last.op = "bounce_redirect")
    => LET stored == sessions[last.req.sid]["cas_return_to"] IN
       /\ Len(last.redirects) = 1
       /\ last.redirects[1].kind = "local"
       /\ last.redirects[1].url =
            (IF last.req.returnTo # Undef THEN last.req.returnTo ELSE stored)
       /\ (last.req.returnTo # Undef \/ stored # Undef)
            => last.redirects[1].url # Undef

====
